---- MODULE Spec2Model ----
(***************************************************************************)
(* Model of the plugin adapter core (adapter/generic/adapter_core.py), its *)
(* two queue threads (adapter/generic/qthread.py) and the Matrix handler   *)
(* (adapter/matrix/handler.py).                                            *)
(*                                                                         *)
(* Threads: "M" the main thread (plugin_adapter.start_plugin_adapter),     *)
(* "T" the broker connection's callback thread (on_open, on_close,         *)
(* handle_message), "I" the worker of qthread_handle_message, and the      *)
(* worker of qthread_to_amp (ocur).  A thread executes the statements of   *)
(* the method it is in one at a time; prog[t] is the list of statements    *)
(* the thread still has to execute, so every interleaving of the threads   *)
(* at statement level is a behaviour of the model.                         *)
(***************************************************************************)
EXTENDS Naturals, Sequences, FiniteSets

\* ------------------------------------------------------------------ bounds
MaxEvents == 3   \* broker events over the whole run: messages delivered
                 \* plus times the transport closes (a new session follows each)

\* ------------------------------------------------------------------ state
VARIABLES
    state,          \* AdapterCore.state
    configuration,  \* Handler.configuration
    outQ,           \* qthread_to_amp.queue
    inQ,            \* qthread_handle_message.queue
    ocur,           \* item the outbound worker holds (NoItem when blocked in get)
    icur,           \* item the inbound worker holds or handled last
    prog,           \* per thread: statements still to execute
    trace,          \* per thread: statements executed for the current call
    iread,          \* self.state as read by the callback handling icur
    tcall,          \* callback the transport thread runs or ran last
    tread,          \* self.state as read by on_open
    conn,           \* BrokerConnection: closed / connecting / open / closing
    closeReason,    \* reason of the last broker_connection.close
    delivered,      \* number of raw messages delivered by the broker so far
    closes,         \* number of times the transport closed so far
    accepted,       \* Configuration messages accepted since the last open
    orunning        \* whether the thread of qthread_to_amp is still in its loop

vars == << state, configuration, outQ, inQ, ocur, icur, prog, trace, iread,
           tcall, tread, conn, closeReason, delivered, closes, accepted,
           orunning >>

\* State(Enum)
DISCONNECTED == "DISCONNECTED"
CONNECTED    == "CONNECTED"
ANNOUNCED    == "ANNOUNCED"
CONFIGURED   == "CONFIGURED"
READY        == "READY"
ERROR        == "ERROR"
State == {DISCONNECTED, CONNECTED, ANNOUNCED, CONFIGURED, READY, ERROR}

Threads == {"M", "T", "I"}

\* label_pb2.Label.LabelType and the labels of Handler.supported_labels
STIMULUS == "STIMULUS"
RESPONSE == "RESPONSE"
NoLabel  == [sort |-> "none", name |-> ""]
Label(sort, name) == [sort |-> sort, name |-> name]
Labels == {Label(STIMULUS, "open"), Label(RESPONSE, "opened")}

\* Handler.default_configuration and a Configuration sent by the broker
DefaultConfiguration == "default"
BrokerConfiguration  == "broker"

\* message_pb2.Message as received: one populated variant
RawKinds == {"configuration", "error", "label", "reset", "ready"}
\* other payloads: "unknown" decodes to a Message with none of these variants
\* populated; "garbled" fails to decode before any field is parsed;
\* "truncated" is an Error field followed by a field that is cut off, so that
\* decoding fails after the error field has been parsed
OtherKinds == {"unknown", "garbled", "truncated"}
\* with, for the properties: id, the item's place in put order; by, the
\* thread that put it; doomed, whether the item was waiting in its queue when
\* a clear_queue call started
NoItem == [kind |-> "none", arg |-> "", label |-> NoLabel, id |-> 0,
           by |-> "", doomed |-> FALSE]
Msg(kind, arg, label, id, by) ==
    [kind |-> kind, arg |-> arg, label |-> label, id |-> id, by |-> by,
     doomed |-> FALSE]

\* one statement of a thread's program
Op(op, arg) == [op |-> op, arg |-> arg, label |-> NoLabel]
OpL(op, label) == [op |-> op, arg |-> "", label |-> label]

Head1(t) == Head(prog[t])
Busy(t) == prog[t] # <<>>
At(t, op) == Busy(t) /\ Head1(t).op = op

\* the thread t has executed its head statement and goes on with `more`
\* followed by the rest of its program
Step(t, more) ==
    /\ prog' = [prog EXCEPT ![t] = more \o Tail(prog[t])]
    /\ trace' = [trace EXCEPT ![t] = Append(trace[t], Head1(t))]

SilentStep(t, more) ==
    /\ prog' = [prog EXCEPT ![t] = more \o Tail(prog[t])]
    /\ UNCHANGED trace

Count(s, op) == Cardinality({i \in 1..Len(s) : s[i].op = op})
StepAs(t, entry, more) ==
    /\ prog' = [prog EXCEPT ![t] = more \o Tail(prog[t])]
    /\ trace' = [trace EXCEPT ![t] = Append(trace[t], entry)]

\* ------------------------------------------------------------ programs
\* QThread.clear_queue: the loop starts with its emptiness test
clear_queue(q) == << Op("clear_queue", q) >>

\* AdapterCore._clear_qthread_queues
clear_qthread_queues == clear_queue("out") \o clear_queue("in")

\* AdapterCore.start
start == clear_qthread_queues \o << Op("start_check", "") >>

send_error_no_close(message) == << Op("put_error", message) >>

\* AdapterCore.send_error
send_error(message) == << Op("put_error", message), Op("close", message) >>

send_ready_state_first == << Op("set_state", READY), Op("put_ready", "") >>

\* AdapterCore.send_ready
send_ready == << Op("put_ready", ""), Op("set_state", READY) >>

send_response_any_sort(label) == << OpL("put_label", label) >>

\* AdapterCore.send_response
send_response(label) ==
    IF label.sort = RESPONSE
    THEN << OpL("put_label", label) >>
    ELSE send_error("Label is not of type Response")

\* AdapterCore.send_stimulus_confirmation
send_stimulus_confirmation(pb_label) == << OpL("put_label", pb_label) >>

\* Handler.send_message_to_amp (adapter/matrix/handler.py)
handler_send_message_to_amp(raw_message) ==
    IF raw_message = "RESET_PERFORMED"
    THEN send_ready
    ELSE send_response(Label(RESPONSE, raw_message))

\* Handler.stimulate (adapter/matrix/handler.py), when nothing raises
handler_stimulate(pb_label) ==
    send_stimulus_confirmation(pb_label) \o
    (IF pb_label.name = "open" THEN handler_send_message_to_amp("opened")
     ELSE IF pb_label.name = "close" THEN handler_send_message_to_amp("closed")
     ELSE << >>)

\* Handler.start and Handler.reset (adapter/matrix/handler.py)
handler_start == send_ready
handler_reset == handler_send_message_to_amp("RESET_PERFORMED")

\* the body of AdapterCore.on_open when the state is DISCONNECTED
on_open_body ==
    << Op("set_state", CONNECTED), Op("send_announcement", ""),
       Op("set_state", ANNOUNCED) >>

\* the body of AdapterCore.on_close after self.state = State.DISCONNECTED
on_close_body ==
    clear_qthread_queues \o << Op("h_stop", "") >> \o start

on_configuration_body_again(st) ==
    IF st \in {ANNOUNCED, READY}
    THEN << Op("set_state", CONFIGURED), Op("h_set_configuration", ""),
            Op("h_start", "") >>
    ELSE send_error("Configuration received while already configured")

on_configuration_body_start_first(st) ==
    IF st = ANNOUNCED
    THEN << Op("set_state", CONFIGURED), Op("h_start", ""),
            Op("h_set_configuration", "") >>
    ELSE send_error("Configuration received while already configured")

\* AdapterCore.on_configuration, after self.state has been read
on_configuration_body(st) ==
    IF st = ANNOUNCED
    THEN << Op("set_state", CONFIGURED), Op("h_set_configuration", ""),
            Op("h_start", "") >>
    ELSE IF st = CONNECTED
    THEN send_error("Configuration received while not yet announced")
    ELSE send_error("Configuration received while already configured")

on_label_body_any_state(st, pb_label) == << OpL("h_stimulate", pb_label) >>

\* AdapterCore.on_label, after self.state has been read
on_label_body(st, pb_label) ==
    IF st = READY
    THEN (IF pb_label.sort # STIMULUS
          THEN send_error("Label is not a stimulus") ELSE << >>)
         \o << OpL("h_stimulate", pb_label) >>
    ELSE send_error("Label received from AMP while not ready")

on_reset_body_no_drain(st) ==
    IF st = READY
    THEN << Op("h_reset", "") >>
    ELSE send_error("Reset received while not ready")

\* AdapterCore.on_reset, after self.state has been read
on_reset_body(st) ==
    IF st = READY
    THEN clear_qthread_queues \o << Op("h_reset", "") >>
    ELSE send_error("Reset received while not ready")

on_error_body_reply(message) ==
    << Op("set_state", ERROR) >> \o send_error(message)

\* AdapterCore.on_error
on_error_body(message) == << Op("set_state", ERROR), Op("close", message) >>

\* ------------------------------------------------------------ initial state
Init ==
    /\ state = DISCONNECTED
    /\ configuration = DefaultConfiguration
    /\ outQ = << >>
    /\ inQ = << >>
    /\ ocur = NoItem
    /\ icur = NoItem
    /\ prog = [t \in Threads |->
                  IF t = "M" THEN start ELSE << >>]
    /\ trace = [t \in Threads |-> << >>]
    /\ iread = "none"
    /\ tcall = "none"
    /\ tread = "none"
    /\ conn = "closed"
    /\ closeReason = "none"
    /\ delivered = 0
    /\ closes = 0
    /\ accepted = 0
    /\ orunning = TRUE

\* ------------------------------------------------------------ statements
\* self.state = <value>
SetState(t) ==
    /\ At(t, "set_state")
    /\ state' = Head1(t).arg
    /\ Step(t, << >>)
    /\ UNCHANGED << configuration, outQ, inQ, ocur, icur, iread, tcall, tread,
                    conn, closeReason, delivered,
                    closes, accepted, orunning >>

\* sequence number of the next item put on qthread_to_amp: one more than the
\* newest item still waiting or held by the worker
MaxId(S) == IF S = {} THEN 0 ELSE CHOOSE n \in S : \A m \in S : m <= n
NextId ==
    MaxId({outQ[i].id : i \in 1..Len(outQ)} \cup {ocur.id}) + 1

PutOps == {"put_error", "put_ready", "put_label", "send_announcement"}

\* the message a put statement builds
MessageOf(o, t) ==
    CASE o.op = "put_error" -> Msg("error", o.arg, NoLabel, NextId, t)
      [] o.op = "put_ready" -> Msg("ready", "", NoLabel, NextId, t)
      [] o.op = "put_label" -> Msg("label", "", o.label, NextId, t)
      [] o.op = "send_announcement" ->
            Msg("announcement", configuration, NoLabel, NextId, t)

put_front(q, item) == << item >> \o q

\* QThread.put
put(q, item) == Append(q, item)

\* AdapterCore._queue_message_to_amp, reached from send_error, send_ready,
\* send_response, send_stimulus_confirmation and send_announcement
queue_message_to_amp(t) ==
    /\ Busy(t)
    /\ Head1(t).op \in PutOps
    /\ outQ' = put(outQ, MessageOf(Head1(t), t))
    /\ StepAs(t, [Head1(t) EXCEPT !.arg = MessageOf(Head1(t), t).arg], << >>)
    /\ UNCHANGED << state, configuration, inQ, ocur, icur, iread, tcall, tread,
                    conn, closeReason, delivered, closes,
                    accepted, orunning >>

\* BrokerConnection.close(reason)
broker_close(t) ==
    /\ At(t, "close")
    /\ closeReason' = Head1(t).arg
    /\ conn' = IF conn = "open" THEN "closing" ELSE conn
    /\ Step(t, << >>)
    /\ UNCHANGED << state, configuration, outQ, inQ, ocur, icur, iread, tcall,
                    tread, delivered, closes,
                    accepted, orunning >>

\* BrokerConnection.connect()
broker_connect(c) == "connecting"

start_check_any_state(t) ==
    /\ At(t, "start_check")
    /\ conn' = broker_connect(conn)
    /\ StepAs(t, Op("start_check", state), << >>)
    /\ UNCHANGED << state, configuration, outQ, inQ, ocur, icur, iread, tcall,
                    tread, closeReason, delivered, closes, accepted, orunning >>

\* AdapterCore.start: if self.state == State.DISCONNECTED:
\*                        self.broker_connection.connect()
start_check(t) ==
    /\ At(t, "start_check")
    /\ conn' = IF state = DISCONNECTED THEN broker_connect(conn) ELSE conn
    /\ StepAs(t, Op("start_check", state), << >>)
    /\ UNCHANGED << state, configuration, outQ, inQ, ocur, icur, iread, tcall,
                    tread, closeReason, delivered, closes, accepted, orunning >>

QueueOf(q) == IF q = "out" THEN outQ ELSE inQ

\* the items of q, marked as waiting at the start of a clear_queue call
Waiting(q) == [i \in 1..Len(q) |-> [q[i] EXCEPT !.doomed = TRUE]]

\* QThread.clear_queue: while not self.queue.empty(), on entry to the call
\* (op clear_queue) and after each removal (op cq_check)
cq_check(t) ==
    /\ Busy(t)
    /\ Head1(t).op \in {"clear_queue", "cq_check"}
    /\ IF QueueOf(Head1(t).arg) = << >>
       THEN StepAs(t, Op("cleared", Head1(t).arg), << >>)
       ELSE SilentStep(t, << Op("cq_get", Head1(t).arg) >>)
    /\ outQ' = IF Head1(t) = Op("clear_queue", "out") THEN Waiting(outQ) ELSE outQ
    /\ inQ' = IF Head1(t) = Op("clear_queue", "in") THEN Waiting(inQ) ELSE inQ
    /\ UNCHANGED << state, configuration, ocur, icur, iread, tcall, tread, conn,
                    closeReason, delivered, closes, accepted, orunning >>

\* QThread.clear_queue: item = self.queue.get(), which blocks on an empty queue
cq_get(t) ==
    /\ At(t, "cq_get")
    /\ QueueOf(Head1(t).arg) # << >>
    /\ IF Head1(t).arg = "out"
       THEN outQ' = Tail(outQ) /\ UNCHANGED inQ
       ELSE inQ' = Tail(inQ) /\ UNCHANGED outQ
    /\ SilentStep(t, << Op("cq_check", Head1(t).arg) >>)
    /\ UNCHANGED << state, configuration, ocur, icur, iread, tcall, tread, conn,
                    closeReason, delivered, closes, accepted, orunning >>

\* ------------------------------------------------------------ handler calls
\* the thread t has executed its head statement, which raised: it leaves the
\* try block it is in (the rest of its program) for the except clause
Raise(t, entry, except) ==
    /\ prog' = [prog EXCEPT ![t] = except]
    /\ trace' = [trace EXCEPT ![t] = Append(trace[t], entry)]

\* self.handler.set_configuration(Configuration.decode(pb_config)) in
\* on_configuration: Handler.set_configuration (adapter/generic/handler.py)
\* stores the decoded Configuration of the message being handled; when the
\* call raises, handler.start() is skipped and the except clause calls
\* send_error
handler_set_configuration(t) ==
    /\ At(t, "h_set_configuration")
    /\ \E outcome \in {"ok", "raise"} :
          /\ configuration' = IF outcome = "ok" THEN icur.arg ELSE configuration
          /\ IF outcome = "ok"
             THEN StepAs(t, Op("h_set_configuration", outcome), << >>)
             ELSE Raise(t, Op("h_set_configuration", outcome),
                        send_error("set_configuration failed"))
    /\ UNCHANGED << state, outQ, inQ, ocur, icur, iread, tcall, tread, conn,
                    closeReason, delivered, closes,
                    accepted, orunning >>

\* a handler call that never returns: its thread executes nothing more
blocked == << Op("blocked", "") >>

\* self.handler.start() in on_configuration: the Matrix handler calls
\* send_ready; a handler that fails to reach its SUT raises, and the except
\* clause of on_configuration calls send_error; a handler whose SUT hangs
\* never returns
call_handler_start(t) ==
    /\ At(t, "h_start")
    /\ \E outcome \in {"ok", "raise", "block"} :
          StepAs(t, Op("h_start", outcome),
                 IF outcome = "ok" THEN handler_start
                 ELSE IF outcome = "raise" THEN send_error("start failed")
                 ELSE blocked)
    /\ UNCHANGED << state, configuration, outQ, inQ, ocur, icur, iread, tcall,
                    tread, conn, closeReason, delivered, closes, accepted, orunning >>

\* self.handler.stimulate(pb_label) in on_label, with its except clause
call_handler_stimulate(t) ==
    /\ At(t, "h_stimulate")
    /\ \E outcome \in {"ok", "raise", "block"} :
          StepAs(t, [Head1(t) EXCEPT !.arg = outcome],
                 IF outcome = "ok" THEN handler_stimulate(Head1(t).label)
                 ELSE IF outcome = "raise"
                 THEN send_error("error while stimulating the SUT")
                 ELSE blocked)
    /\ UNCHANGED << state, configuration, outQ, inQ, ocur, icur, iread, tcall,
                    tread, conn, closeReason, delivered, closes, accepted, orunning >>

call_handler_reset_swallow(t) ==
    /\ At(t, "h_reset")
    /\ \E outcome \in {"ok", "raise", "reason", "block"} :
          StepAs(t, Op("h_reset", outcome),
                 IF outcome = "ok" THEN handler_reset
                 ELSE IF outcome = "block" THEN blocked ELSE << >>)
    /\ UNCHANGED << state, configuration, outQ, inQ, ocur, icur, iread, tcall,
                    tread, conn, closeReason, delivered, closes, accepted, orunning >>

\* response = self.handler.reset() in on_reset: the Matrix handler reports
\* RESET_PERFORMED and returns None; a handler whose SUT fails to reset
\* raises or returns the reason, and on_reset then calls send_error
call_handler_reset(t) ==
    /\ At(t, "h_reset")
    /\ \E outcome \in {"ok", "raise", "reason", "block"} :
          StepAs(t, Op("h_reset", outcome),
                 IF outcome = "ok" THEN handler_reset
                 ELSE IF outcome = "raise"
                 THEN send_error("Error while resetting connection to the SUT")
                 ELSE IF outcome = "reason"
                 THEN send_error("Resetting the SUT failed due to: reason")
                 ELSE blocked)
    /\ UNCHANGED << state, configuration, outQ, inQ, ocur, icur, iread, tcall,
                    tread, conn, closeReason, delivered, closes, accepted, orunning >>

\* self.handler.stop() in on_close: the Matrix handler only logs
call_handler_stop(t) ==
    /\ At(t, "h_stop")
    /\ Step(t, << >>)
    /\ UNCHANGED << state, configuration, outQ, inQ, ocur, icur, iread, tcall,
                    tread, conn, closeReason, delivered, closes, accepted, orunning >>


\* ------------------------------------------------------------ inbound worker
\* _handle_message: pb_message.ParseFromString(raw_message) in a try whose
\* except clause only logs
Decodes(m) == m.kind \notin {"garbled", "truncated"}

\* _handle_message: the variant pb_message.HasField finds afterwards; after a
\* failed ParseFromString pb_message holds the fields parsed before the failure
Variant(m) ==
    CASE m.kind \in RawKinds -> m.kind
      [] m.kind = "truncated" -> "error"
      [] OTHER -> "none"

InWorkerGet_while_busy ==
    /\ inQ # << >>
    /\ icur' = Head(inQ)
    /\ inQ' = Tail(inQ)
    /\ iread' = "none"
    /\ prog' = [prog EXCEPT !["I"] = << Op("dispatch", "") >>]
    /\ trace' = [trace EXCEPT !["I"] = << >>]
    /\ UNCHANGED << state, configuration, outQ, ocur, tcall, tread, conn,
                    closeReason, delivered, closes, accepted, orunning >>


\* QThread._worker of qthread_handle_message: item = self.queue.get()
InWorkerGet ==
    /\ ~Busy("I")
    /\ inQ # << >>
    /\ icur' = Head(inQ)
    /\ inQ' = Tail(inQ)
    /\ iread' = "none"
    /\ prog' = [prog EXCEPT !["I"] = << Op("dispatch", "") >>]
    /\ trace' = [trace EXCEPT !["I"] = << >>]
    /\ UNCHANGED << state, configuration, outQ, ocur, tcall, tread, conn,
                    closeReason, delivered, closes, accepted, orunning >>

\* _handle_message -> on_configuration: if self.state == State.ANNOUNCED ...
on_configuration ==
    /\ At("I", "dispatch")
    /\ Variant(icur) = "configuration"
    /\ iread' = state
    /\ accepted' = IF state = ANNOUNCED THEN accepted + 1 ELSE accepted
    /\ SilentStep("I", on_configuration_body(state))
    /\ UNCHANGED << state, configuration, outQ, inQ, ocur, icur, tcall, tread,
                    conn, closeReason, delivered,
                    closes, orunning >>

\* _handle_message -> on_label: if self.state == State.READY ...
on_label ==
    /\ At("I", "dispatch")
    /\ Variant(icur) = "label"
    /\ iread' = state
    /\ SilentStep("I", on_label_body(state, icur.label))
    /\ UNCHANGED << state, configuration, outQ, inQ, ocur, icur, tcall, tread,
                    conn, closeReason, delivered,
                    closes, accepted, orunning >>

\* _handle_message -> on_reset: if self.state == State.READY ...
on_reset ==
    /\ At("I", "dispatch")
    /\ Variant(icur) = "reset"
    /\ iread' = state
    /\ SilentStep("I", on_reset_body(state))
    /\ UNCHANGED << state, configuration, outQ, inQ, ocur, icur, tcall, tread,
                    conn, closeReason, delivered,
                    closes, accepted, orunning >>

\* _handle_message -> on_error
on_error ==
    /\ At("I", "dispatch")
    /\ Variant(icur) = "error"
    /\ SilentStep("I", on_error_body(icur.arg))
    /\ UNCHANGED << state, configuration, outQ, inQ, ocur, icur, iread, tcall,
                    tread, conn, closeReason, delivered, closes, accepted, orunning >>

\* _handle_message: a Ready message is only logged
handle_ready ==
    /\ At("I", "dispatch")
    /\ Variant(icur) = "ready"
    /\ SilentStep("I", << >>)
    /\ UNCHANGED << state, configuration, outQ, inQ, ocur, icur, iread, tcall,
                    tread, conn, closeReason, delivered, closes, accepted, orunning >>

\* _handle_message: else: logging.debug('Unknown message type')
handle_unknown ==
    /\ At("I", "dispatch")
    /\ Variant(icur) = "none"
    /\ SilentStep("I", << >>)
    /\ UNCHANGED << state, configuration, outQ, inQ, ocur, icur, iread, tcall,
                    tread, conn, closeReason, delivered, closes, accepted, orunning >>

\* ------------------------------------------------------------ outbound worker
OutWorkerGet_after_inbound ==
    /\ orunning
    /\ ocur = NoItem
    /\ outQ # << >>
    /\ ~Busy("I")
    /\ ocur' = Head(outQ)
    /\ outQ' = Tail(outQ)
    /\ UNCHANGED << state, configuration, inQ, icur, prog, trace, iread, tcall,
                    tread, conn, closeReason, delivered, closes, accepted, orunning >>

\* QThread._worker of qthread_to_amp: item = self.queue.get()
OutWorkerGet ==
    /\ orunning
    /\ ocur = NoItem
    /\ outQ # << >>
    /\ ocur' = Head(outQ)
    /\ outQ' = Tail(outQ)
    /\ UNCHANGED << state, configuration, inQ, icur, prog, trace, iread, tcall,
                    tread, conn, closeReason, delivered, closes, accepted, orunning >>

\* BrokerConnection.send(bytes): whether the call returns or raises; it can
\* raise when the transport is not connected
SendOutcomes(c) ==
    IF c \in {"closed", "connecting"} THEN {"ok", "raise"} ELSE {"ok"}

\* QThread._worker: self.process_item(item), which for qthread_to_amp is
\* AdapterCore._send_message_to_amp: broker_connection.send(...).  Neither
\* catches an exception: when send raises, the worker thread ends
send_message_to_amp ==
    /\ orunning
    /\ ocur # NoItem
    /\ \E outcome \in SendOutcomes(conn) :
          /\ ocur' = NoItem
          /\ orunning' = (outcome = "ok")
    /\ UNCHANGED << state, configuration, outQ, inQ, icur, prog, trace, iread,
                    tcall, tread, conn, closeReason, delivered, closes, accepted >>

\* ------------------------------------------------------------ transport thread
\* the callback thread of the broker connection calls AdapterCore.on_open
on_open ==
    /\ ~Busy("T")
    /\ conn = "connecting"
    /\ conn' = "open"
    /\ accepted' = 0
    /\ tcall' = "on_open"
    /\ tread' = state
    /\ prog' = [prog EXCEPT !["T"] =
                   IF state = DISCONNECTED THEN on_open_body ELSE << >>]
    /\ trace' = [trace EXCEPT !["T"] = << >>]
    /\ UNCHANGED << state, configuration, outQ, inQ, ocur, icur, iread,
                    closeReason, delivered, closes, orunning >>

\* the callback thread calls AdapterCore.on_close: the broker or the network
\* closed the connection, or a close the adapter requested has completed
on_close ==
    /\ ~Busy("T")
    /\ conn \in {"open", "closing"}
    /\ delivered + closes < MaxEvents
    /\ conn' = "closed"
    /\ tcall' = "on_close"
    /\ tread' = state
    /\ state' = DISCONNECTED
    /\ prog' = [prog EXCEPT !["T"] = on_close_body]
    /\ trace' = [trace EXCEPT !["T"] = << Op("set_state", DISCONNECTED) >>]
    /\ closes' = closes + 1
    /\ UNCHANGED << configuration, outQ, inQ, ocur, icur, iread, closeReason,
                    delivered, accepted, orunning >>

\* the messages the broker can deliver
RawMessages ==
    { Msg("configuration", BrokerConfiguration, NoLabel, 0, "T"),
      Msg("error", "broker error", NoLabel, 0, "T"),
      Msg("reset", "", NoLabel, 0, "T"),
      Msg("ready", "", NoLabel, 0, "T"),
      Msg("unknown", "", NoLabel, 0, "T"),
      Msg("garbled", "", NoLabel, 0, "T"),
      Msg("truncated", "cut off", NoLabel, 0, "T") }
    \cup { Msg("label", "", l, 0, "T") : l \in Labels }

\* the callback thread calls AdapterCore.handle_message(raw_message)
handle_message ==
    /\ ~Busy("T")
    /\ conn \in {"open", "closing"}
    /\ delivered + closes < MaxEvents
    /\ \E m \in RawMessages :
          inQ' = put(inQ, [m EXCEPT !.id = delivered + 1])
    /\ delivered' = delivered + 1
    /\ UNCHANGED << state, configuration, outQ, ocur, icur, prog, trace, iread,
                    tcall, tread, conn, closeReason, closes, accepted, orunning >>

\* ------------------------------------------------------------ specification
Statement(t) ==
    \/ SetState(t)
    \/ queue_message_to_amp(t)
    \/ broker_close(t)
    \/ start_check(t)
    \/ cq_check(t)
    \/ cq_get(t)
    \/ handler_set_configuration(t)
    \/ call_handler_start(t)
    \/ call_handler_stimulate(t)
    \/ call_handler_reset(t)
    \/ call_handler_stop(t)

Next ==
    \/ \E t \in Threads : Statement(t)
    \/ InWorkerGet
    \/ on_configuration
    \/ on_label
    \/ on_reset
    \/ on_error
    \/ handle_ready
    \/ handle_unknown
    \/ OutWorkerGet
    \/ send_message_to_amp
    \/ on_open
    \/ on_close
    \/ handle_message

Spec == Init /\ [][Next]_vars

\* every thread that can execute a statement eventually does: the main and
\* callback threads and the two workers are scheduled by the interpreter;
\* what the broker does (on_open, on_close, handle_message) is not assumed
FairSpec ==
    /\ Spec
    /\ \A t \in Threads : WF_vars(Statement(t))
    /\ WF_vars(InWorkerGet)
    /\ WF_vars(on_configuration \/ on_label \/ on_reset \/ on_error
                  \/ handle_ready \/ handle_unknown)
    /\ WF_vars(OutWorkerGet)
    /\ WF_vars(send_message_to_amp)

TypeOK ==
    /\ state \in State
    /\ conn \in {"closed", "connecting", "open", "closing"}
    /\ delivered \in 0..MaxEvents
    /\ closes \in 0..MaxEvents
    /\ orunning \in BOOLEAN

\* ------------------------------------------------- send_response on its own
\* a handler calls AdapterCore.send_response(label)
call_send_response(t) ==
    /\ At(t, "send_response")
    /\ Step(t, send_response(Head1(t).label))
    /\ UNCHANGED << state, configuration, outQ, inQ, ocur, icur, iread, tcall,
                    tread, conn, closeReason, delivered, closes, accepted, orunning >>

\* the labels a handler can pass: the labels of Handler.supported_labels
SupportedLabels ==
    { Label(STIMULUS, "open"), Label(RESPONSE, "opened"),
      Label(STIMULUS, "close"), Label(RESPONSE, "closed") }

\* a handler call running on the inbound worker is about to call
\* send_response(label), in any session state and with the Announcement of
\* the session sent, held by the outbound worker, or still waiting
InitSendResponse ==
    /\ state \in State
    /\ configuration = DefaultConfiguration
    /\ \E waiting \in {0, 1, 2} :
          /\ outQ = IF waiting = 2
                    THEN << Msg("announcement", DefaultConfiguration, NoLabel, 1, "T") >>
                    ELSE << >>
          /\ ocur = IF waiting = 1
                    THEN Msg("announcement", DefaultConfiguration, NoLabel, 1, "T")
                    ELSE NoItem
    /\ inQ = << >>
    /\ icur = NoItem
    /\ \E label \in SupportedLabels :
          prog = [t \in Threads |->
                     IF t = "I" THEN << OpL("send_response", label) >> ELSE << >>]
    /\ trace = [t \in Threads |-> << >>]
    /\ iread = "none"
    /\ tcall = "on_open"
    /\ tread = DISCONNECTED
    /\ conn \in {"open", "closing"}
    /\ closeReason = "none"
    /\ delivered = 0
    /\ closes = 0
    /\ accepted = 0
    /\ orunning = TRUE

NextSendResponse ==
    \/ call_send_response("I")
    \/ queue_message_to_amp("I")
    \/ broker_close("I")
    \/ OutWorkerGet
    \/ send_message_to_amp

SpecSendResponse == InitSendResponse /\ [][NextSendResponse]_vars

\* ------------------------------------------------------------ properties
\* the inbound worker has finished handling the message icur
IDone == ~Busy("I") /\ icur # NoItem
ITrace == trace["I"]
\* the transport thread has finished the callback `call`
TDone(call) == ~Busy("T") /\ tcall = call
TTrace == trace["T"]
OpsOf(s) == [i \in 1..Len(s) |-> s[i].op]
\* the thread t executes its head statement in this step
Executes(t) == Busy(t) /\ prog'[t] # prog[t]

\* C1: a Label of sort Stimulus handled by on_label in state READY leads to
\* exactly one handler.stimulate call, with that label; handled in any other
\* state it leads to no stimulate call and exactly one Error message queued.
C1_StimulusLabel ==
    (IDone /\ icur.kind = "label" /\ icur.label.sort = STIMULUS) =>
        IF iread = READY
        THEN /\ Count(ITrace, "h_stimulate") = 1
             /\ \A i \in 1..Len(ITrace) :
                   ITrace[i].op = "h_stimulate" => ITrace[i].label = icur.label
        ELSE /\ Count(ITrace, "h_stimulate") = 0
             /\ Count(ITrace, "put_error") = 1
             /\ OpsOf(ITrace) = << "put_error", "close" >>

C1_Witness ==
    /\ IDone /\ icur.kind = "label" /\ icur.label.sort = STIMULUS
    /\ iread = READY
    /\ Count(ITrace, "h_stimulate") = 1

\* C2: a Label whose sort is not Stimulus, handled by on_label in state
\* READY, gets the Error 'Label is not a stimulus' queued and handler.stimulate
\* is not called for it.
C2_NonStimulusNotStimulated ==
    (IDone /\ icur.kind = "label" /\ icur.label.sort # STIMULUS
           /\ iread = READY) =>
        /\ Count(ITrace, "h_stimulate") = 0
        /\ \E i \in 1..Len(ITrace) :
              ITrace[i] = Op("put_error", "Label is not a stimulus")

\* C3: at most one Configuration is accepted per session, and only in state
\* ANNOUNCED; a Configuration handled in any other state queues one Error,
\* calls neither handler.set_configuration nor handler.start and does not
\* write the state.
C3_ConfigurationOnce ==
    /\ accepted <= 1
    /\ (icur.kind = "configuration" /\ iread # "none" /\ iread # ANNOUNCED) =>
          /\ Count(ITrace, "h_set_configuration") = 0
          /\ Count(ITrace, "h_start") = 0
          /\ Count(ITrace, "set_state") = 0
          /\ IDone => OpsOf(ITrace) = << "put_error", "close" >>

C3_Witness ==
    /\ accepted = 1
    /\ IDone /\ icur.kind = "configuration" /\ iread = READY
    /\ OpsOf(ITrace) = << "put_error", "close" >>

\* C4: a Configuration handled in state ANNOUNCED sets the state to
\* CONFIGURED, then calls handler.set_configuration and, when that returns,
\* handler.start; the
\* state becomes READY only when the handler then sends ready; when
\* handler.start raises, exactly one Error is queued and a close is requested.
C4_ConfigurationAccepted ==
    (IDone /\ icur.kind = "configuration" /\ iread = ANNOUNCED) =>
        /\ ITrace[1] = Op("set_state", CONFIGURED)
        /\ ITrace[2].op = "h_set_configuration"
        /\ ITrace[2].arg = "ok" =>
              /\ Len(ITrace) = 5
              /\ ITrace[3].op = "h_start"
              /\ IF ITrace[3].arg = "raise"
                 THEN /\ ITrace[4].op = "put_error"
                      /\ ITrace[5] = Op("close", ITrace[4].arg)
                 ELSE /\ ITrace[4].op = "put_ready"
                      /\ ITrace[5] = Op("set_state", READY)

C4_Witness ==
    /\ IDone /\ icur.kind = "configuration" /\ iread = ANNOUNCED
    /\ ITrace[3] = Op("h_start", "raise")
    /\ Count(ITrace, "put_error") = 1
    /\ Count(ITrace, "close") = 1

\* C5: an on_open in state DISCONNECTED queues exactly one Announcement, built
\* with the handler's default configuration, and ends in state ANNOUNCED, in
\* every session; an on_open in another state queues nothing and writes no
\* state.
C5_AnnouncesDefaultConfiguration ==
    TDone("on_open") =>
        IF tread = DISCONNECTED
        THEN /\ OpsOf(TTrace) =
                   << "set_state", "send_announcement", "set_state" >>
             /\ TTrace[2].arg = DefaultConfiguration
             /\ TTrace[3].arg = ANNOUNCED
        ELSE TTrace = << >>

\* C6: start() does not write the state; it calls broker_connection.connect()
\* when the state it reads is DISCONNECTED and performs no transport action
\* when it reads any other state.
C6_StartFrame ==
    [][\A t \in Threads :
          /\ (At(t, "start_check") /\ Executes(t)) =>
                /\ state' = state
                /\ conn' = IF state = DISCONNECTED THEN "connecting" ELSE conn
          /\ (Busy(t) /\ Head1(t).op \in {"clear_queue", "cq_check", "cq_get"}
                /\ Executes(t)) =>
                /\ state' = state
                /\ conn' = conn]_vars

C6_Witness ==
    \E t \in Threads : \E i \in 1..Len(trace[t]) :
        /\ trace[t][i].op = "start_check"
        /\ trace[t][i].arg # DISCONNECTED
        /\ conn = "closed"

\* C7: when on_close has run, both queues were drained, handler.stop() was
\* called exactly once, the state was set to DISCONNECTED and start() has
\* requested a transport connect.
C7_CloseReconnects ==
    TDone("on_close") =>
        /\ TTrace[1] = Op("set_state", DISCONNECTED)
        /\ Count(TTrace, "h_stop") = 1
        /\ Count(TTrace, "cleared") = 4
        /\ Count(TTrace, "start_check") = 1
        /\ conn = "connecting"

\* C8: no item that was waiting when clear_queue started is passed to
\* process_item: the worker of the queue never holds such an item.
C8_DrainedItemsNotProcessed ==
    /\ ~ocur.doomed
    /\ ~icur.doomed

\* C9: each queue hands its items to its worker in the order they were put:
\* the waiting items are in put order and the item the worker holds was put
\* before every waiting item.
Increasing(q) ==
    \A i \in 1..Len(q) : \A j \in 1..Len(q) : i < j => q[i].id < q[j].id
C9_Fifo ==
    /\ Increasing(outQ)
    /\ Increasing(inQ)
    /\ (ocur # NoItem /\ outQ # << >>) => ocur.id < Head(outQ).id
    /\ (icur # NoItem /\ inQ # << >>) => icur.id < Head(inQ).id

C9_Witness ==
    /\ ocur # NoItem
    /\ Len(outQ) >= 2
    /\ \E i \in 1..Len(outQ) : \E j \in 1..Len(outQ) :
          outQ[i].by = "T" /\ outQ[j].by = "I"

\* C10: send_error(text) first puts exactly one Error(text) on the outbound
\* queue, then calls broker_connection.close with the same text; neither step
\* writes the state.
C10_SendError ==
    /\ [](\A t \in Threads : \A i \in 1..Len(trace[t]) :
            trace[t][i].op = "put_error" =>
                IF i < Len(trace[t])
                THEN trace[t][i + 1] = Op("close", trace[t][i].arg)
                ELSE Busy(t) /\ Head1(t) = Op("close", trace[t][i].arg))
    /\ [][\A t \in Threads :
            /\ (At(t, "put_error") /\ Executes(t)) =>
                  /\ Len(outQ') = Len(outQ) + 1
                  /\ outQ'[Len(outQ')].kind = "error"
                  /\ outQ'[Len(outQ')].arg = Head1(t).arg
                  /\ state' = state /\ conn' = conn
            /\ (At(t, "close") /\ Executes(t) /\ trace[t] # << >>
                  /\ trace[t][Len(trace[t])].op = "put_error") =>
                  /\ closeReason' = trace[t][Len(trace[t])].arg
                  /\ conn' = (IF conn = "open" THEN "closing" ELSE conn)
                  /\ state' = state /\ outQ' = outQ]_vars

C10_Witness ==
    /\ Len(ITrace) >= 2
    /\ ITrace[Len(ITrace) - 1].op = "put_error"
    /\ ITrace[Len(ITrace)] = Op("close", ITrace[Len(ITrace) - 1].arg)
    /\ closeReason = ITrace[Len(ITrace)].arg
    /\ conn = "closing"

\* C11: send_response(label) with a label of sort Response puts exactly one
\* Label message, carrying that label, on the outbound queue and requests no
\* close; with a label of any other sort it puts no Label message and does
\* what send_error does: one Error message put, then a close requested.
C11_SendResponse ==
    /\ [](\A t \in Threads : \A i \in 1..Len(trace[t]) :
            (trace[t][i].op = "send_response" /\ ~Busy(t)) =>
                IF trace[t][i].label.sort = RESPONSE
                THEN /\ Len(trace[t]) = i + 1
                     /\ trace[t][i + 1] = OpL("put_label", trace[t][i].label)
                ELSE /\ Len(trace[t]) = i + 2
                     /\ trace[t][i + 1].op = "put_error"
                     /\ trace[t][i + 2] = Op("close", trace[t][i + 1].arg))
    /\ [][\A t \in Threads :
            (At(t, "put_label") /\ Executes(t)) =>
                /\ Len(outQ') = Len(outQ) + 1
                /\ outQ'[Len(outQ')].kind = "label"
                /\ outQ'[Len(outQ')].label = Head1(t).label
                /\ conn' = conn /\ closeReason' = closeReason]_vars

C11_Witness ==
    /\ ~Busy("I")
    /\ Len(ITrace) = 3
    /\ ITrace[1].op = "send_response" /\ ITrace[1].label.sort = STIMULUS
    /\ ITrace[2].op = "put_error"
    /\ conn = "closing" /\ closeReason = ITrace[2].arg

\* C12: send_ready puts the Ready message on the outbound queue before it
\* sets the state to READY: the state only becomes READY by a statement whose
\* thread has just put a Ready message, and that put leaves the state as it is.
C12_ReadyQueuedBeforeState ==
    /\ [](\A t \in Threads : \A i \in 1..Len(trace[t]) :
            trace[t][i] = Op("set_state", READY) =>
                (i > 1 /\ trace[t][i - 1].op = "put_ready"))
    /\ [][/\ (state' = READY /\ state # READY) =>
                \E t \in Threads :
                    /\ At(t, "set_state") /\ Executes(t)
                    /\ trace[t] # << >>
                    /\ trace[t][Len(trace[t])].op = "put_ready"
          /\ \A t \in Threads :
                (At(t, "put_ready") /\ Executes(t)) =>
                    /\ Len(outQ') = Len(outQ) + 1
                    /\ outQ'[Len(outQ')].kind = "ready"
                    /\ state' = state]_vars

C12_Witness ==
    /\ state = READY
    /\ ~Busy("I")
    /\ Len(ITrace) >= 2
    /\ ITrace[Len(ITrace)] = Op("set_state", READY)
    /\ ITrace[Len(ITrace) - 1].op = "put_ready"
    /\ \E i \in 1..Len(outQ) : outQ[i].kind = "ready" /\ outQ[i].by = "I"

\* a message handled in a state where it is not legal, or a non-stimulus
\* Label handled in state READY
WrongState ==
    /\ IDone
    /\ iread # "none"
    /\ \/ icur.kind = "configuration" /\ iread # ANNOUNCED
       \/ icur.kind = "label" /\ iread # READY
       \/ icur.kind = "reset" /\ iread # READY
       \/ icur.kind = "label" /\ iread = READY /\ icur.label.sort # STIMULUS

\* C13: a wrong-state Configuration, Label or Reset, or a non-stimulus Label
\* in READY, is answered with one Error message and absorbed: no transport
\* close is requested for it and the state is not written.
C13_AnomalyAbsorbed ==
    WrongState =>
        /\ Count(ITrace, "put_error") = 1
        /\ Count(ITrace, "close") = 0
        /\ Count(ITrace, "set_state") = 0

\* the statement is a handler call that failed
Failed(o) ==
    /\ o.op \in {"h_set_configuration", "h_start", "h_stimulate", "h_reset"}
    /\ o.arg \in {"raise", "reason"}

\* C14: when a handler call made by on_configuration, on_label or on_reset
\* fails (raises, or for reset returns a reason), the callback then puts
\* exactly one Error message, requests a transport close with the same text,
\* and does nothing else.
C14_HandlerFailureReported ==
    \A i \in 1..Len(ITrace) :
        (IDone /\ Failed(ITrace[i])) =>
            /\ Len(ITrace) = i + 2
            /\ ITrace[i + 1].op = "put_error"
            /\ ITrace[i + 2] = Op("close", ITrace[i + 1].arg)

C14_Witness ==
    /\ IDone
    /\ \E i \in 1..Len(ITrace) : ITrace[i] = Op("h_reset", "reason")
    /\ ITrace[Len(ITrace)].op = "close"
    /\ conn = "closing"

\* the state changes of the transition table: DISCONNECTED to ANNOUNCED on
\* open (on_open passes through CONNECTED), ANNOUNCED to CONFIGURED,
\* CONFIGURED to READY, any state to ERROR, any state to DISCONNECTED
TableTransition(from, to) ==
    \/ from = DISCONNECTED /\ to = CONNECTED
    \/ from = CONNECTED /\ to = ANNOUNCED
    \/ from = ANNOUNCED /\ to = CONFIGURED
    \/ from = CONFIGURED /\ to = READY
    \/ to = ERROR
    \/ to = DISCONNECTED

\* C15: under every interleaving of the transport thread and the inbound
\* worker, every change of the state is a transition of the table; the state
\* never goes from DISCONNECTED to CONFIGURED or READY.
C15_TableTransitionsOnly ==
    [][state' # state => TableTransition(state, state')]_vars

\* C16: a Reset handled in state READY drains both queues and then calls
\* handler.reset exactly once; when the reset succeeds the handler sends ready
\* and the state is set to READY, when it fails one Error is put.  A Reset
\* handled in any other state calls no handler.reset, drains nothing, puts
\* one Error and does not write the state.
C16_Reset ==
    (IDone /\ icur.kind = "reset") =>
        IF iread = READY
        THEN /\ Len(ITrace) >= 3
             /\ ITrace[1] = Op("cleared", "out")
             /\ ITrace[2] = Op("cleared", "in")
             /\ ITrace[3].op = "h_reset"
             /\ Count(ITrace, "h_reset") = 1
             /\ IF ITrace[3].arg = "ok"
                THEN /\ Len(ITrace) = 5
                     /\ ITrace[4].op = "put_ready"
                     /\ ITrace[5] = Op("set_state", READY)
                ELSE /\ Count(ITrace, "put_error") = 1
                     /\ Count(ITrace, "set_state") = 0
        ELSE /\ OpsOf(ITrace) = << "put_error", "close" >>
             /\ ITrace[1].arg = "Reset received while not ready"

C16_Witness ==
    /\ IDone /\ icur.kind = "reset" /\ iread = READY
    /\ ITrace[3] = Op("h_reset", "ok")
    /\ state = READY

\* C17: an Error message received from the broker, in any state, sets the
\* state to ERROR and requests the transport close with the received text as
\* reason; nothing is put on the outbound queue for it.
C17_ErrorReceived ==
    /\ []((IDone /\ icur.kind = "error") =>
            ITrace = << Op("set_state", ERROR), Op("close", icur.arg) >>)
    /\ [][(At("I", "close") /\ Executes("I") /\ icur.kind = "error") =>
            /\ closeReason' = icur.arg
            /\ conn' = (IF conn = "open" THEN "closing" ELSE conn)
            /\ outQ' = outQ]_vars

C17_Witness ==
    /\ IDone /\ icur.kind = "error"
    /\ iread = "none"
    /\ state = ERROR
    /\ conn = "closing"
    /\ closeReason = icur.arg

\* C18: a payload that fails to decode, a decoded Ready message and a message
\* with no recognised variant are dropped: handling them invokes no callback,
\* puts nothing on the outbound queue, writes no state and requests no close,
\* and the inbound worker is free for the next item.
C18_DroppedPayloads ==
    (icur # NoItem /\ (~Decodes(icur) \/ icur.kind \in {"ready", "unknown"})) =>
        /\ ITrace = << >>
        /\ prog["I"] \in {<< >>, << Op("dispatch", "") >>}

\* the statements of the callbacks that react to inbound messages
CallbackOps ==
    {"dispatch", "h_set_configuration", "h_start", "h_stimulate", "h_reset"}

\* C19: inbound messages are processed one at a time: only the inbound worker
\* executes on_configuration, on_label, on_reset and on_error, it takes the
\* next message only when the callback for the previous one has returned, and
\* so at most one handler.stimulate call is in flight, whatever handle_message
\* calls the transport thread makes meanwhile.
C19_OneInboundAtATime ==
    /\ [](\A t \in Threads \ {"I"} :
            /\ \A i \in 1..Len(prog[t]) : prog[t][i].op \notin CallbackOps
            /\ \A i \in 1..Len(trace[t]) : trace[t][i].op \notin CallbackOps)
    /\ [](Count(prog["I"], "h_stimulate") + Count(ITrace, "h_stimulate") <= 1)
    /\ [][icur' # icur => (prog["I"] = << >> /\ prog'["I"] = << Op("dispatch", "") >>)]_vars

C19_Witness ==
    /\ Busy("I")
    /\ Count(ITrace, "h_stimulate") = 1
    /\ Len(inQ) >= 1
    /\ Head(inQ).kind = "label"

\* C20: after every transport closure a reconnect is attempted: once on_close
\* has been called, broker_connection.connect() is eventually requested,
\* whatever the state was when the transport closed.
C20_CloseLeadsToConnect ==
    \A n \in 1..MaxEvents : (closes = n) ~> (conn = "connecting" \/ closes > n)

\* the inbound worker is in a handler call that never returns
IBlocked == At("I", "blocked")

C22_WorkersSurviveFailures == orunning

\* C23: clear_queue never blocks: a thread that is about to call
\* self.queue.get() in clear_queue finds an item in the queue.
C23_ClearQueueReturns ==
    \A t \in Threads : At(t, "cq_get") => QueueOf(Head1(t).arg) # << >>

\* C24: an Error message put by send_error is not discarded by the drain of
\* the on_close that follows the close requested by the same send_error:
\* on_close's clear_queue never removes an Error message from the outbound
\* queue.
C24_ErrorNotDrained ==
    [][(At("T", "cq_get") /\ Executes("T") /\ tcall = "on_close"
            /\ Head1("T").arg = "out")
          => Head(outQ).kind # "error"]_vars

\* C25: no message is handed to broker_connection.send between an on_close
\* and the next on_open, and the first message handed to it after an on_open
\* is that session's Announcement.
C25_NoSendWhileClosed ==
    [][(ocur # NoItem /\ ocur' = NoItem) => conn \in {"open", "closing"}]_vars

====
